---- MODULE Spec2Model ----
(***************************************************************************)
(* Model of the yed regex find / replace plugin (src/find.c).              *)
(*                                                                         *)
(* Text is a sequence of one-character strings.  Every command handler of  *)
(* the plugin is one action; the search engine, the replacement engine,    *)
(* the match navigator and the sed-expression parser are operators that    *)
(* compute what the C code computes.                                       *)
(***************************************************************************)
EXTENDS Integers, Sequences, FiniteSets, TLC

VARIABLES
    buffer,               \* the lines of the buffer shown by every frame
    active_frame,         \* ys->active_frame
    cursor,               \* frame -> [line, col], both 1-based
    matchframes,          \* _matchframes: sequence of [yed_frame, matches]
    pattern,              \* _pattern: a char array [used, data]
    regex,                \* _regex: what the last regcomp left behind
    replace_properties,   \* _replace_properties
    search_save_row,      \* _search_save_row
    search_save_col,      \* _search_save_col
    interactive_command,  \* ys->interactive_command: "none", "find", "replace"
    cmd_buff,             \* ys->cmd_buff, the text typed at the prompt
    last,                 \* what the last command did (observation only)
    steps,                \* number of commands issued so far
    scan                  \* the locals of find_matchframe_search_in_buffer

vars == <<buffer, active_frame, cursor, matchframes, pattern, regex,
          replace_properties, search_save_row, search_save_col,
          interactive_command, cmd_buff, last, steps, scan>>

----------------------------------------------------------------------------
(* Bounds of the model *)

MaxSteps == 3
MaxCmdLen == 2
MaxLineLen == 10

----------------------------------------------------------------------------
(* Inputs *)

Frames == {"f1", "f2"}

InitBuffers ==
    { << <<"a", "X", "a", "X", "a", "X">>, <<"a", "a", "a">> >>,
      << <<"X", "A", "a">>, <<"a", "a">> >> }

InitCursors == { [line |-> 1, col |-> 1], [line |-> 2, col |-> 2] }

SearchPatterns == { <<"a">>, <<"X", "*">>, <<"b">>, <<"[">> }

Replacements == { <<"b", "b">>, <<>> }

TypeKeys == {"a", "*", "["}

Keys == TypeKeys \cup {"BACKSPACE", "ENTER", "ESC", "CTRL_C"}

Directions == {"left", "right", "up", "down"}

SedStartEnd == <<"5", ",", "1", "0", "s", "/", "f", "o", "o", "/", "b", "a", "r", "/", "g", "i">>

SedStartOnly == <<"5", "s", "/", "f", "o", "o", "/", "b", "a", "r", "/">>

SedWhole == <<"%", "s", "/", "f", "o", "o", "/", "b", "a", "r", "/">>

SedWholeAndEnd == <<"%", ",", "1", "0", "s", "/", "f", "o", "o", "/", "b", "a", "r", "/">>

SedReuse == <<"s", "/", "/", "b", "a", "r", "/">>

SedCurrentLine == <<"s", "/", "a", "/", "b", "b", "/">>

SedDelete == <<"s", "/", "a", "/", "/", "g">>

SedSingleLine == <<",", "1", "s", "/", "a", "/", "b", "b", "/", "g">>

SedMalformed == <<"s", "/", "a", "/", "b", "b">>

SedIgnoreCase == <<"%", "s", "/", "a", "/", "X", "/", "g", "i">>

SedZeroWidth == <<"s", "/", "X", "*", "/", "b", "/", "g", "c">>

SedExpressions ==
    { SedStartEnd,
      SedStartOnly,
      SedWhole,
      SedWholeAndEnd,
      SedReuse,
      SedCurrentLine,
      SedDelete,
      SedSingleLine,
      SedMalformed,
      SedIgnoreCase,
      SedZeroWidth }

----
(* Small helpers *)

Min(S) == CHOOSE x \in S : \A y \in S : x <= y

Max(S) == CHOOSE x \in S : \A y \in S : x >= y

Chars(s) == {s[i] : i \in 1..Len(s)}

Suffix(s, n) == SubSeq(s, n + 1, Len(s))

EOS == "NUL"

----------------------------------------------------------------------------
(* The macro-only array library as find.c uses it: `used' elements of      *)
(* `data' are live; array_clear keeps the memory, so data may hold stale   *)
(* bytes past `used'.                                                      *)

ArrayMake == [used |-> 0, data |-> <<>>]

array_len(a) == a.used

array_clear(a) == [a EXCEPT !.used = 0]

array_push(a, x) == [used |-> a.used + 1, data |-> SubSeq(a.data, 1, a.used) \o <<x>>]

RECURSIVE array_push_n(_, _)
array_push_n(a, s) ==
    IF s = <<>> THEN a ELSE array_push_n(array_push(a, Head(s)), Tail(s))

find_array_terminate(a) == array_push(a, EOS)

find_array_replace(a, s) == find_array_terminate(array_push_n(array_clear(a), s))

\* array_data read as a C string: the bytes before the first terminator.
\* Only meaningful when the memory holds a terminator (HasString).
HasString(a) == EOS \in Chars(a.data)

array_data(a) ==
    LET ends == {i \in 1..Len(a.data) : a.data[i] = EOS}
    IN  IF ends = {} THEN a.data ELSE SubSeq(a.data, 1, Min(ends) - 1)

\* What a read of never-written array memory can yield.
UninitStrings == {<<>>, <<"a">>, <<"[">>}

----------------------------------------------------------------------------
(* regcomp / regexec for POSIX basic regular expressions over the model's  *)
(* characters: literals, a postfix `*', and `[' which (never closed here)   *)
(* fails to compile.                                                       *)

REG_OK == 0
REG_EBRACK == 7

Fold(c) == IF c = "A" THEN "a" ELSE IF c = "X" THEN "x" ELSE c

NoRegex == [valid |-> FALSE, src |-> <<>>, icase |-> FALSE, atoms |-> <<>>]

RegexAtoms(body) ==
    LET heads == {i \in 1..Len(body) : body[i] # "*" \/ i = 1}
        n     == Cardinality(heads)
        nth   == [k \in 1..n |-> CHOOSE i \in heads : Cardinality({j \in heads : j < i}) = k - 1]
    IN  [k \in 1..n |->
            [c    |-> body[nth[k]],
             star |-> nth[k] < Len(body) /\ body[nth[k] + 1] = "*"]]

regcomp(text, is_ignore_case) ==
    IF "[" \in Chars(text)
    THEN [status |-> REG_EBRACK, re |-> NoRegex]
    ELSE [status |-> REG_OK,
          re |-> [valid |-> TRUE, src |-> text, icase |-> is_ignore_case,
                  atoms |-> RegexAtoms(text)]]

CharEq(re, x, c) == IF re.icase THEN Fold(x) = Fold(c) ELSE x = c

\* The offsets at which atoms k.. of re can stop when started at offset i of s.
RECURSIVE MatchEnds(_, _, _, _)
MatchEnds(re, k, s, i) ==
    IF k > Len(re.atoms) THEN {i}
    ELSE LET a    == re.atoms[k]
             here == i < Len(s) /\ CharEq(re, s[i + 1], a.c)
         IN  IF a.star
             THEN MatchEnds(re, k + 1, s, i)
                  \cup (IF here THEN MatchEnds(re, k, s, i + 1) ELSE {})
             ELSE IF here THEN MatchEnds(re, k + 1, s, i + 1) ELSE {}

NoMatch == [rm_so |-> -1, rm_eo |-> -1]

\* Try the start offsets from left to right; the longest match at the first
\* offset that matches wins.  NoMatch stands for REG_NOMATCH.
RECURSIVE RegexScan(_, _, _)
RegexScan(re, s, i) ==
    IF i > Len(s) THEN NoMatch
    ELSE IF MatchEnds(re, 1, s, i) # {}
         THEN [rm_so |-> i, rm_eo |-> Max(MatchEnds(re, 1, s, i))]
         ELSE RegexScan(re, s, i + 1)

regexec(re, s) == RegexScan(re, s, 0)

----------------------------------------------------------------------------
(* Search engine *)

\* find_matchframe_push_match_next without the + 1: a match of zero width
\* leaves the offset where it was.
find_matchframe_push_match_next_eo(rm) == rm.rm_eo

find_matchframe_push_match_next(rm) == rm.rm_eo + 1

find_matchframe_push_match(row, offset, rm) ==
    [line |-> row, start |-> rm.rm_so + offset, end |-> rm.rm_eo + offset]

\* SearchLine without the break on !is_global.
RECURSIVE SearchLineNoBreak(_, _, _, _, _)
SearchLineNoBreak(re, line, row, offset, is_global) ==
    IF ~(offset < Len(line)) THEN <<>>
    ELSE LET rm == regexec(re, Suffix(line, offset))
         IN  IF rm = NoMatch THEN <<>>
             ELSE <<find_matchframe_push_match(row, offset, rm)>>
                  \o SearchLineNoBreak(re, line, row,
                                       offset + find_matchframe_push_match_next(rm),
                                       is_global)

\* The inner while loop of find_matchframe_search_in_buffer for one line.
RECURSIVE SearchLine(_, _, _, _, _)
SearchLine(re, line, row, offset, is_global) ==
    IF ~(offset < Len(line)) THEN <<>>
    ELSE LET rm == regexec(re, Suffix(line, offset))
         IN  IF rm = NoMatch THEN <<>>
             ELSE <<find_matchframe_push_match(row, offset, rm)>>
                  \o (IF is_global
                      THEN SearchLine(re, line, row,
                                      offset + find_matchframe_push_match_next(rm), TRUE)
                      ELSE <<>>)

\* SearchRows walking the rows from the last to the first.
RECURSIVE SearchRowsBottomUp(_, _, _, _)
SearchRowsBottomUp(buf, re, row, is_global) ==
    IF row > Len(buf) THEN <<>>
    ELSE SearchRowsBottomUp(buf, re, row + 1, is_global)
         \o SearchLine(re, buf[row], row, 0, is_global)

\* The outer loop: rows 1, 2, ... until yed_get_line_text returns NULL.
RECURSIVE SearchRows(_, _, _, _)
SearchRows(buf, re, row, is_global) ==
    IF row > Len(buf) THEN <<>>
    ELSE SearchLine(re, buf[row], row, 0, is_global)
         \o SearchRows(buf, re, row + 1, is_global)

find_matchframe_search_in_buffer(buf, re, is_global) ==
    SearchRows(buf, re, 1, is_global)

----------------------------------------------------------------------------
(* Buffer editing primitives of the host, 1-based columns *)

yed_delete_from_line(buf, row, col) ==
    IF row \in 1..Len(buf) /\ col \in 1..Len(buf[row])
    THEN [buf EXCEPT ![row] = SubSeq(@, 1, col - 1) \o SubSeq(@, col + 1, Len(@))]
    ELSE buf

yed_insert_into_line(buf, row, col, g) ==
    IF row \in 1..Len(buf) /\ col \in 1..(Len(buf[row]) + 1)
    THEN [buf EXCEPT ![row] = SubSeq(@, 1, col - 1) \o <<g>> \o SubSeq(@, col, Len(@))]
    ELSE buf

\* yed_set_cursor_far_within_frame: the host keeps the cursor inside the buffer.
ClampCursor(buf, row, col) ==
    LET r == IF row < 1 THEN 1 ELSE IF row > Len(buf) THEN Len(buf) ELSE row
        w == Len(buf[r]) + 1
    IN  [line |-> r, col |-> IF col < 1 THEN 1 ELSE IF col > w THEN w ELSE col]

----------------------------------------------------------------------------
(* Replacement engine: the loop of find_matchframe_replace *)

\* for (i = m->start; i < m->end; i++) yed_delete_from_line(.., col)
RECURSIVE DeleteMatch(_, _, _, _)
DeleteMatch(buf, row, col, n) ==
    IF n <= 0 THEN buf
    ELSE DeleteMatch(yed_delete_from_line(buf, row, col), row, col, n - 1)

\* for (i = replacement_len - 1; i >= 0; i--) yed_insert_into_line(.., replacement[i])
RECURSIVE InsertReplacement(_, _, _, _, _)
InsertReplacement(buf, row, col, data, i) ==
    IF i < 0 THEN buf
    ELSE InsertReplacement(yed_insert_into_line(buf, row, col, data[i + 1]),
                           row, col, data, i - 1)

ReplaceOffsetStep(offset, replacement_len, match_len, first) ==
    IF first # EOS THEN offset + (replacement_len - match_len) ELSE offset - match_len

\* One iteration of the loop over the matches, for match m; `first' is the
\* byte read as replacement[0].  st holds the buffer, offset and last_line
\* the iteration starts from and the number of edit calls made so far.
ReplaceStep(st, m, rpl, first) ==
    LET match_len       == m.end - m.start
        replacement_len == array_len(rpl) - 1
        off             == IF st.last_line # m.line THEN 0 ELSE st.offset
        col             == m.start + 1 + off
        b1              == DeleteMatch(st.buf, m.line, col, match_len)
    IN  [edits     |-> st.edits + match_len
                       + (IF first # EOS /\ replacement_len > 0
                          THEN replacement_len ELSE 0),
         last_line |-> m.line,
         offset    |-> ReplaceOffsetStep(off, replacement_len, match_len, first),
         buf       |-> IF first # EOS
                       THEN InsertReplacement(b1, m.line, col, rpl.data,
                                              replacement_len - 1)
                       ELSE b1]

\* The whole loop: the state after all the matches of ms were replaced.
ReplaceLoop(buf, ms, rpl, first) ==
    LET after[k \in 0..Len(ms)] ==
            IF k = 0
            THEN [buf |-> buf, offset |-> 0, last_line |-> -1, edits |-> 0]
            ELSE ReplaceStep(after[k - 1], ms[k], rpl, first)
    IN  after[Len(ms)]

----------------------------------------------------------------------------
(* Match navigator *)

MSG_HIT_BOTTOM == "Search hit bottom, continuing at top"
MSG_HIT_TOP == "Search hit top, continuing at bottom"
MSG_NOT_FOUND == "Pattern not found"
MSG_COMPILE_ERROR == "[FIND] pattern error"
MSG_NO_MATCHES == "No matches to replace!"
MSG_INVALID_EXPR == "Invalid replace expression!"
MSG_BOTH_PERCENT_AND_END == "Expression cannot provide both '%' and ending line number!"
MSG_START_NO_END == "Expression provided starting line number but no ending!"

find_pattern_exists(pat) == array_len(pat) > 1

\* ForwardHit without the test that the match is on the cursor's line.
ForwardHitAnyLine(m, r, c) == m.start > c \/ m.line > r

ForwardHit(m, r, c) == (m.line = r /\ m.start > c) \/ m.line > r

\* BackwardHit comparing with c instead of c - 1.
BackwardHitOffByOne(m, r, c) == (m.line = r /\ m.start < c) \/ m.line < r

BackwardHit(m, r, c) == (m.line = r /\ m.start < c - 1) \/ m.line < r

\* Returns ret = 1 and leaves row, col untouched (here: r, c) when there are
\* no matches, else ret = 0 and the position of the chosen match.
find_matchframe_cursor_nearest_match(ms, pat, r, c, direction) ==
    IF Len(ms) = 0
    THEN [ret |-> 1, row |-> r, col |-> c,
          msgs |-> IF find_pattern_exists(pat) THEN {MSG_NOT_FOUND} ELSE {}]
    ELSE LET fwd == {i \in 1..Len(ms) : ForwardHit(ms[i], r, c)}
             bwd == {i \in 1..Len(ms) : BackwardHit(ms[i], r, c)}
             i   == IF direction > 0
                    THEN (IF fwd # {} THEN Min(fwd) ELSE 1)
                    ELSE (IF bwd # {} THEN Max(bwd) ELSE Len(ms))
             wrap == IF direction > 0
                     THEN (IF fwd = {} THEN {MSG_HIT_BOTTOM} ELSE {})
                     ELSE (IF bwd = {} THEN {MSG_HIT_TOP} ELSE {})
         IN  [ret |-> 0, row |-> ms[i].line, col |-> ms[i].start + 1, msgs |-> wrap]

----------------------------------------------------------------------------
(* Replace properties *)

find_replace_properties_reset(rp) ==
    [is_all_lines   |-> FALSE,
     is_single_line |-> FALSE,
     is_confirm     |-> FALSE,
     is_global      |-> FALSE,
     is_ignore_case |-> FALSE,
     start_line     |-> -1,
     end_line       |-> -1,
     replacement    |-> array_clear(rp.replacement)]

----------------------------------------------------------------------------
(* Sed-expression parser.  SedRegexec is regexec of the fixed extended     *)
(* pattern of find_parse_sed_expression (an optional start line or %, an   *)
(* optional comma, an optional end line, then s/find/replace/flags):       *)
(* leftmost start, longest overall match, earlier groups as long as        *)
(* possible.                                                               *)

Digits == {"0", "1", "2", "3", "4", "5", "6", "7", "8", "9"}

WordChars == Digits \cup {"a", "b", "c", "f", "g", "i", "o", "r", "s", "x", "A", "X", "_"}

DigitVal(c) ==
    CASE c = "0" -> 0 [] c = "1" -> 1 [] c = "2" -> 2 [] c = "3" -> 3 [] c = "4" -> 4
      [] c = "5" -> 5 [] c = "6" -> 6 [] c = "7" -> 7 [] c = "8" -> 8 [] c = "9" -> 9

\* sscanf(buff, "%d", &n) on a run of digits
RECURSIVE ScanInt(_, _)
ScanInt(s, acc) ==
    IF s = <<>> THEN acc ELSE ScanInt(Tail(s), acc * 10 + DigitVal(Head(s)))

\* Number of consecutive characters of class S from 0-based offset p on.
RECURSIVE RunLen(_, _, _)
RunLen(exp, p, S) ==
    IF p < Len(exp) /\ exp[p + 1] \in S THEN 1 + RunLen(exp, p + 1, S) ELSE 0

Group(so, eo) == [rm_so |-> so, rm_eo |-> eo]

SedNoMatch == [ok |-> FALSE, g |-> <<>>]

\* Groups 3, 4, 5 once the two closing slashes s1 < s2 are known.
SedGroups(exp, p, q1, q2, q3, s1, s2) ==
    [ok |-> TRUE,
     g  |-> << IF q1 > p THEN Group(p, q1) ELSE NoMatch,
               IF q3 > q2 THEN Group(q2, q3) ELSE NoMatch,
               Group(q3 + 2, s1),
               Group(s1 + 1, s2),
               IF RunLen(exp, s2 + 1, WordChars) > 0
               THEN Group(s2 + 1, s2 + 1 + RunLen(exp, s2 + 1, WordChars))
               ELSE NoMatch >>]

\* The last two slashes after the find text close the replace text.
SedSlashes(exp, p, q1, q2, q3, slashes) ==
    IF Cardinality(slashes) < 2 THEN SedNoMatch
    ELSE SedGroups(exp, p, q1, q2, q3, Max(slashes \ {Max(slashes)}), Max(slashes))

\* q3 is where the literal s/ has to stand.
SedAfterEnd(exp, p, q1, q2, q3) ==
    IF q3 + 1 < Len(exp) /\ exp[q3 + 1] = "s" /\ exp[q3 + 2] = "/"
    THEN SedSlashes(exp, p, q1, q2, q3,
                    {j \in (q3 + 2)..(Len(exp) - 1) : exp[j + 1] = "/"})
    ELSE SedNoMatch

SedAfterComma(exp, p, q1, q2) ==
    SedAfterEnd(exp, p, q1, q2, q2 + RunLen(exp, q2, Digits))

SedAfterStart(exp, p, q1) ==
    SedAfterComma(exp, p, q1,
                  IF q1 < Len(exp) /\ exp[q1 + 1] = "," THEN q1 + 1 ELSE q1)

\* The match that starts at offset p, if there is one.
SedMatchAt(exp, p) ==
    SedAfterStart(exp, p,
                  IF RunLen(exp, p, Digits) > 0 THEN p + RunLen(exp, p, Digits)
                  ELSE IF p < Len(exp) /\ exp[p + 1] = "%" THEN p + 1 ELSE p)

\* regexec is not anchored: the leftmost offset with a match wins.
RECURSIVE SedScan(_, _)
SedScan(exp, p) ==
    IF p > Len(exp) THEN SedNoMatch
    ELSE IF SedMatchAt(exp, p).ok THEN SedMatchAt(exp, p)
         ELSE SedScan(exp, p + 1)

SedRegexec(exp) == SedScan(exp, 0)

\* regexec of the fixed pattern on each expression the model issues.
SedRegexecOf == [e \in SedExpressions |-> SedRegexec(e)]

find_fill_match_buff(str, rm) ==
    IF rm.rm_eo - rm.rm_so = 0 THEN <<>> ELSE SubSeq(str, rm.rm_so + 1, rm.rm_eo)

SedFlags(rp, flags) ==
    [rp EXCEPT !.is_global      = @ \/ "g" \in Chars(flags),
               !.is_confirm     = @ \/ "c" \in Chars(flags),
               !.is_ignore_case = @ \/ "i" \in Chars(flags)]

\* SedRange without the test that % excludes an end line.
SedRangePercentWithEnd(rp, cursor_line, b1, b2) ==
    IF b1 = <<>>
    THEN [err |-> "",
          rp  |-> [rp EXCEPT !.start_line = IF b2 # <<>> THEN ScanInt(b2, 0)
                                            ELSE cursor_line,
                             !.is_single_line = TRUE]]
    ELSE IF b1 = <<"%">>
    THEN [err |-> "", rp |-> [rp EXCEPT !.is_all_lines = TRUE]]
    ELSE IF b2 # <<>>
    THEN [err |-> MSG_START_NO_END, rp |-> [rp EXCEPT !.start_line = ScanInt(b1, 0)]]
    ELSE [err |-> "", rp |-> [rp EXCEPT !.start_line = ScanInt(b1, 0)]]

\* The range branches, lines 636-670: the new properties, or an error message.
SedRange(rp, cursor_line, b1, b2) ==
    IF b1 = <<>>
    THEN [err |-> "",
          rp  |-> [rp EXCEPT !.start_line = IF b2 # <<>> THEN ScanInt(b2, 0)
                                            ELSE cursor_line,
                             !.is_single_line = TRUE]]
    ELSE IF b1 = <<"%">>
    THEN IF b2 # <<>>
         THEN [err |-> MSG_BOTH_PERCENT_AND_END, rp |-> rp]
         ELSE [err |-> "", rp |-> [rp EXCEPT !.is_all_lines = TRUE]]
    ELSE LET rps == [rp EXCEPT !.start_line = ScanInt(b1, 0)]
         IN  IF b2 # <<>>
             THEN [err |-> MSG_START_NO_END, rp |-> rps]
             ELSE [err |-> "", rp |-> rps]

\* SedFinish overriding the pattern with the find text even when it is empty.
SedFinishAlwaysOverride(rp, pat, b3, b4, b5) ==
    [status |-> 0,
     rp     |-> SedFlags([rp EXCEPT !.replacement = array_push_n(@, b4 \o <<EOS>>)], b5),
     pat    |-> find_array_replace(pat, b3),
     msgs   |-> {}]

\* After the range branch succeeded: pattern override, replacement, flags.
SedFinish(rp, pat, b3, b4, b5) ==
    [status |-> 0,
     rp     |-> SedFlags([rp EXCEPT !.replacement = array_push_n(@, b4 \o <<EOS>>)], b5),
     pat    |-> IF b3 # <<>> THEN find_array_replace(pat, b3) ELSE pat,
     msgs   |-> {}]

\* SedAfterRange overriding the pattern before the range is checked.
SedAfterRangePatternFirst(rng, pat, b3, b4, b5) ==
    IF rng.err # ""
    THEN [status |-> 1, rp |-> rng.rp,
          pat |-> IF b3 # <<>> THEN find_array_replace(pat, b3) ELSE pat,
          msgs |-> {rng.err}]
    ELSE SedFinish(rng.rp, pat, b3, b4, b5)

SedAfterRange(rng, pat, b3, b4, b5) ==
    IF rng.err # ""
    THEN [status |-> 1, rp |-> rng.rp, pat |-> pat, msgs |-> {rng.err}]
    ELSE SedFinish(rng.rp, pat, b3, b4, b5)

SedAfterMatch(rp0, pat, cursor_line, exp, m) ==
    IF ~m.ok
    THEN [status |-> 1, rp |-> rp0, pat |-> pat, msgs |-> {MSG_INVALID_EXPR}]
    ELSE SedAfterRange(SedRange(rp0, cursor_line,
                                find_fill_match_buff(exp, m.g[1]),
                                find_fill_match_buff(exp, m.g[2])),
                       pat,
                       find_fill_match_buff(exp, m.g[3]),
                       find_fill_match_buff(exp, m.g[4]),
                       find_fill_match_buff(exp, m.g[5]))

\* status 0 on success, 1 on failure; rp and pat are the globals afterwards.
find_parse_sed_expression(rp_in, pat, cursor_line, exp) ==
    SedAfterMatch(find_replace_properties_reset(rp_in), pat, cursor_line, exp,
                  SedRegexecOf[exp])

----------------------------------------------------------------------------
(* The matchframe registry *)

find_matchframe_get(mfs, f) ==
    LET idx == {i \in 1..Len(mfs) : mfs[i].yed_frame = f}
    IN  IF idx = {} THEN 0 ELSE Min(idx)

find_matchframe_create(mfs, f) == Append(mfs, [yed_frame |-> f, matches |-> <<>>])

find_matchframe_get_or_create(mfs, f) ==
    IF find_matchframe_get(mfs, f) = 0 THEN find_matchframe_create(mfs, f) ELSE mfs

\* SetMatches adding to the matches the frame holds instead of replacing them.
SetMatchesAppend(mfs, f, ms) ==
    [mfs EXCEPT ![find_matchframe_get(mfs, f)].matches = @ \o ms]

SetMatches(mfs, f, ms) == [mfs EXCEPT ![find_matchframe_get(mfs, f)].matches = ms]

\* find_matchframe_clear leaving the matches in place.
find_matchframe_clear_kept(mfs, f) == mfs

find_matchframe_clear(mfs, f) == SetMatches(mfs, f, <<>>)

MatchesOf(mfs, f) ==
    IF find_matchframe_get(mfs, f) = 0 THEN <<>>
    ELSE mfs[find_matchframe_get(mfs, f)].matches

find_pattern_clear(pat) == find_array_terminate(array_clear(pat))

\* The strings regcomp can be handed for array_data(_pattern).
PatternReads(pat) == IF HasString(pat) THEN {array_data(pat)} ELSE UninitStrings

\* The bytes the test replacement[0] != 0 can see.
ReplacementFirstReads(rpl) == IF Len(rpl.data) >= 1 THEN {rpl.data[1]} ELSE {EOS, "?"}

\* yed_cmd_line_readline_take_key on the prompt text
ReadlineTakeKey(cmd, key) ==
    IF key = "BACKSPACE"
    THEN (IF cmd = <<>> THEN cmd ELSE SubSeq(cmd, 1, Len(cmd) - 1))
    ELSE Append(cmd, key)

----------------------------------------------------------------------------
(* Observation record of the last command *)

Obs(op, arg) ==
    [op       |-> op,
     arg      |-> arg,
     buf      |-> buffer,
     pat      |-> pattern,
     cur      |-> cursor[active_frame],
     parsed   |-> -1,
     compiled |-> -1,
     searched |-> FALSE,
     found    |-> <<>>,
     edits    |-> 0,
     msgs     |-> {}]

----------------------------------------------------------------------------
(* find_matchframe_replace on the active frame's matchframe: what it leaves *)
(* behind, given the string read as the pattern and the byte read as       *)
(* replacement[0].                                                         *)

\* find_matchframe_replace going on to the loop without the test for zero
\* matches.
find_matchframe_replace_no_test(rp, buf, text, first) ==
    LET c == regcomp(text, rp.is_ignore_case)
    IN  IF c.status # 0
        THEN [compiled |-> c.status, re |-> c.re, searched |-> FALSE, found |-> <<>>,
              buf |-> buf, edits |-> 0, msgs |-> {MSG_COMPILE_ERROR}]
        ELSE LET ms == find_matchframe_search_in_buffer(buf, c.re, rp.is_global)
                 r  == ReplaceLoop(buf, ms, rp.replacement, first)
             IN  [compiled |-> 0, re |-> c.re, searched |-> TRUE, found |-> ms,
                  buf |-> r.buf, edits |-> r.edits, msgs |-> {}]

find_matchframe_replace(rp, buf, text, first) ==
    LET c == regcomp(text, rp.is_ignore_case)
    IN  IF c.status # 0
        THEN [compiled |-> c.status, re |-> c.re, searched |-> FALSE, found |-> <<>>,
              buf |-> buf, edits |-> 0, msgs |-> {MSG_COMPILE_ERROR}]
        ELSE LET ms == find_matchframe_search_in_buffer(buf, c.re, rp.is_global)
             IN  IF Len(ms) = 0
                 THEN [compiled |-> 0, re |-> c.re, searched |-> TRUE, found |-> ms,
                       buf |-> buf, edits |-> 0, msgs |-> {MSG_NOT_FOUND}]
                 ELSE LET r == ReplaceLoop(buf, ms, rp.replacement, first)
                      IN  [compiled |-> 0, re |-> c.re, searched |-> TRUE, found |-> ms,
                           buf |-> r.buf, edits |-> r.edits, msgs |-> {}]

\* The host keeps every frame's cursor inside the buffer when lines shrink.
KeepCursors(buf) ==
    [f \in Frames |-> ClampCursor(buf, cursor[f].line, cursor[f].col)]

\* The state after find_matchframe_replace ran from command `op'.
RunReplace(op, arg, rp, pat, mfs, parsed) ==
    \E text \in PatternReads(pat), first \in ReplacementFirstReads(rp.replacement) :
        \E out \in {find_matchframe_replace(rp, buffer, text, first)} :
            /\ \A row \in 1..Len(out.buf) : Len(out.buf[row]) <= MaxLineLen
            /\ regex' = out.re
            /\ buffer' = out.buf
            /\ cursor' = KeepCursors(out.buf)
            /\ matchframes' = IF out.searched
                              THEN find_matchframe_clear(mfs, active_frame)
                              ELSE mfs
            /\ last' = [Obs(op, arg) EXCEPT !.parsed = parsed,
                                            !.compiled = out.compiled,
                                            !.searched = out.searched,
                                            !.found = out.found,
                                            !.edits = out.edits,
                                            !.msgs = out.msgs]

----------------------------------------------------------------------------
(* Initial state: after yed_plugin_boot, some buffer open in both frames *)

\* No search under way.
ScanIdle == [pc |-> "idle", row |-> 0, offset |-> 0, is_global |-> FALSE,
             matches |-> <<>>]

Init ==
    /\ buffer \in InitBuffers
    /\ active_frame = "f1"
    /\ cursor \in {[f \in Frames |-> IF f = "f1" THEN c ELSE [line |-> 1, col |-> 1]] :
                     c \in InitCursors}
    /\ matchframes = <<>>
    /\ pattern = ArrayMake
    /\ regex = NoRegex
    /\ replace_properties =
           [is_all_lines |-> FALSE, is_single_line |-> FALSE, is_confirm |-> FALSE,
            is_global |-> FALSE, is_ignore_case |-> FALSE,
            start_line |-> 0, end_line |-> 0, replacement |-> ArrayMake]
    /\ search_save_row = 0
    /\ search_save_col = 0
    /\ interactive_command = "none"
    /\ cmd_buff = <<>>
    /\ last = [op |-> "boot", arg |-> <<>>, buf |-> buffer, pat |-> ArrayMake,
               cur |-> cursor["f1"], parsed |-> -1, compiled |-> -1,
               searched |-> FALSE, found |-> <<>>, edits |-> 0, msgs |-> {}]
    /\ steps = 0
    /\ scan = ScanIdle

\* One command: it runs its searches to the end, no search is under way
\* between two commands.
Tick == steps < MaxSteps /\ steps' = steps + 1 /\ scan' = scan

----------------------------------------------------------------------------
(* find_interactive_mode_start *)

find_interactive_mode_start(which) ==
    /\ interactive_command' = which
    /\ search_save_row' = cursor[active_frame].line
    /\ search_save_col' = cursor[active_frame].col
    /\ cmd_buff' = <<>>

----------------------------------------------------------------------------
(* find_regex_search, lines 556-578: compile, search, move the cursor.     *)
(* pat and inter are _pattern and ys->interactive_command at that point;   *)
(* cur is the cursor of the active frame.                                  *)

SearchJump(pat, inter, buf, save_row, save_col, re, ms) ==
    LET nm == find_matchframe_cursor_nearest_match(ms, pat, save_row, save_col, 1)
    IN  [compiled |-> 0, re |-> re, searched |-> TRUE, found |-> ms,
         cur  |-> IF Len(ms) = 0 THEN ClampCursor(buf, save_row, save_col)
                  ELSE ClampCursor(buf, nm.row, nm.col),
         msgs |-> IF Len(ms) = 0
                  THEN (IF inter = "none" THEN {MSG_NOT_FOUND} ELSE {})
                  ELSE nm.msgs]

\* SearchOutcome jumping from the current cursor instead of the saved position.
SearchOutcomeFromCursor(pat, inter, buf, save_row, save_col, cur) ==
    LET c == regcomp(array_data(pat), FALSE)
    IN  IF c.status # 0
        THEN [compiled |-> c.status, re |-> c.re, searched |-> FALSE, found |-> <<>>,
              cur  |-> cur,
              msgs |-> IF inter = "none" THEN {MSG_COMPILE_ERROR} ELSE {}]
        ELSE SearchJump(pat, inter, buf, cur.line, cur.col, c.re,
                        find_matchframe_search_in_buffer(buf, c.re, TRUE))

\* SearchOutcome giving the compile error in interactive mode too.
SearchOutcomeAlwaysReports(pat, inter, buf, save_row, save_col, cur) ==
    LET c == regcomp(array_data(pat), FALSE)
    IN  IF c.status # 0
        THEN [compiled |-> c.status, re |-> c.re, searched |-> FALSE, found |-> <<>>,
              cur  |-> cur,
              msgs |-> {MSG_COMPILE_ERROR}]
        ELSE SearchJump(pat, inter, buf, save_row, save_col, c.re,
                        find_matchframe_search_in_buffer(buf, c.re, TRUE))

SearchOutcome(pat, inter, buf, save_row, save_col, cur) ==
    LET c == regcomp(array_data(pat), FALSE)
    IN  IF c.status # 0
        THEN [compiled |-> c.status, re |-> c.re, searched |-> FALSE, found |-> <<>>,
              cur  |-> cur,
              msgs |-> IF inter = "none" THEN {MSG_COMPILE_ERROR} ELSE {}]
        ELSE SearchJump(pat, inter, buf, save_row, save_col, c.re,
                        find_matchframe_search_in_buffer(buf, c.re, TRUE))

SearchTail(op, arg, pat, inter, mfs) ==
    \E out \in {SearchOutcome(pat, inter, buffer, search_save_row, search_save_col,
                              cursor[active_frame])} :
        /\ regex' = out.re
        /\ matchframes' = IF out.searched
                          THEN SetMatches(mfs, active_frame, out.found)
                          ELSE mfs
        /\ cursor' = [cursor EXCEPT ![active_frame] = out.cur]
        /\ last' = [Obs(op, arg) EXCEPT !.compiled = out.compiled,
                                        !.searched = out.searched,
                                        !.found = out.found,
                                        !.msgs = out.msgs]

\* find_regex_search with no argument outside interactive mode
FindRegexSearchStart ==
    /\ Tick
    /\ interactive_command = "none"
    /\ matchframes' = find_matchframe_get_or_create(matchframes, active_frame)
    /\ find_interactive_mode_start("find")
    /\ pattern' = find_pattern_clear(pattern)
    /\ last' = Obs("search_start", <<>>)
    /\ UNCHANGED <<buffer, active_frame, cursor, regex, replace_properties>>

\* find_regex_search with the pattern as argument outside interactive mode
FindRegexSearchArg(p) ==
    /\ Tick
    /\ interactive_command = "none"
    /\ pattern' = find_array_replace(pattern, p)
    /\ SearchTail("search_arg", p, pattern', "none",
                  find_matchframe_get_or_create(matchframes, active_frame))
    /\ UNCHANGED <<buffer, active_frame, replace_properties, search_save_row,
                   search_save_col, interactive_command, cmd_buff>>

\* find_regex_search called with a key while the find prompt is active
FindRegexSearchKey(key) ==
    /\ Tick
    /\ interactive_command = "find"
    /\ \E mfs \in {find_matchframe_get_or_create(matchframes, active_frame)} :
           IF key \in {"ESC", "CTRL_C"}
           THEN /\ interactive_command' = "none"
                /\ cmd_buff' = <<>>
                /\ pattern' = find_pattern_clear(pattern)
                /\ matchframes' = find_matchframe_clear(mfs, active_frame)
                /\ cursor' = [cursor EXCEPT ![active_frame] =
                                  ClampCursor(buffer, search_save_row, search_save_col)]
                /\ regex' = regex
                /\ last' = Obs("search_key", <<key>>)
           ELSE IF key = "ENTER"
           THEN /\ interactive_command' = "none"
                /\ cmd_buff' = <<>>
                /\ pattern' = pattern
                /\ SearchTail("search_key", <<key>>, pattern, "none", mfs)
           ELSE /\ key \in TypeKeys => Len(cmd_buff) < MaxCmdLen
                /\ interactive_command' = interactive_command
                /\ cmd_buff' = ReadlineTakeKey(cmd_buff, key)
                /\ pattern' = find_array_replace(pattern, cmd_buff')
                /\ SearchTail("search_key", <<key>>, pattern', "find", mfs)
    /\ UNCHANGED <<buffer, active_frame, replace_properties, search_save_row,
                   search_save_col>>

----------------------------------------------------------------------------
(* find_regex_sed_replace *)

FindRegexSedReplace(exp) ==
    /\ Tick
    /\ interactive_command = "none"
    /\ \E mfs \in {find_matchframe_get_or_create(matchframes, active_frame)},
          ps  \in {find_parse_sed_expression(replace_properties, pattern,
                                             cursor[active_frame].line, exp)} :
           /\ replace_properties' = ps.rp
           /\ pattern' = ps.pat
           /\ IF ps.status # 0
              THEN /\ matchframes' = mfs
                   /\ last' = [Obs("sed", exp) EXCEPT !.parsed = ps.status,
                                                      !.msgs = ps.msgs]
                   /\ UNCHANGED <<buffer, regex, cursor>>
              ELSE RunReplace("sed", exp, ps.rp, ps.pat, mfs, 0)
    /\ UNCHANGED <<active_frame, search_save_row, search_save_col,
                   interactive_command, cmd_buff>>

----------------------------------------------------------------------------
(* find_regex_replace *)

\* called while no pattern is stored
FindRegexReplaceNoPattern ==
    /\ Tick
    /\ interactive_command = "none"
    /\ ~find_pattern_exists(pattern)
    /\ last' = [Obs("replace_none", <<>>) EXCEPT !.msgs = {MSG_NO_MATCHES}]
    /\ UNCHANGED <<buffer, active_frame, cursor, matchframes, pattern, regex,
                   replace_properties, search_save_row, search_save_col,
                   interactive_command, cmd_buff>>

\* called with no argument outside interactive mode
FindRegexReplaceStart ==
    /\ Tick
    /\ interactive_command = "none"
    /\ find_pattern_exists(pattern)
    /\ matchframes' = find_matchframe_get_or_create(matchframes, active_frame)
    /\ replace_properties' =
           [find_replace_properties_reset(replace_properties) EXCEPT !.is_global = TRUE]
    /\ find_interactive_mode_start("replace")
    /\ last' = Obs("replace_start", <<>>)
    /\ UNCHANGED <<buffer, active_frame, cursor, pattern, regex>>

\* called with the replacement as argument outside interactive mode
ReplaceArgProperties(rp, r) ==
    [find_replace_properties_reset(rp) EXCEPT
        !.is_global = TRUE,
        !.replacement = find_array_replace(array_clear(rp.replacement), r)]

FindRegexReplaceArg(r) ==
    /\ Tick
    /\ interactive_command = "none"
    /\ find_pattern_exists(pattern)
    /\ replace_properties' = ReplaceArgProperties(replace_properties, r)
    /\ RunReplace("replace_arg", r, ReplaceArgProperties(replace_properties, r), pattern,
                  find_matchframe_get_or_create(matchframes, active_frame), -1)
    /\ UNCHANGED <<active_frame, pattern, search_save_row, search_save_col,
                   interactive_command, cmd_buff>>

\* called with a key while the replace prompt is active
FindRegexReplaceKey(key) ==
    /\ Tick
    /\ interactive_command = "replace"
    /\ find_pattern_exists(pattern)
    /\ \E mfs \in {find_matchframe_get_or_create(matchframes, active_frame)} :
           IF key \in {"ESC", "CTRL_C"}
           THEN /\ interactive_command' = "none"
                /\ cmd_buff' = <<>>
                /\ matchframes' = mfs
                /\ last' = Obs("replace_key", <<key>>)
                /\ UNCHANGED <<buffer, regex, replace_properties, cursor>>
           ELSE IF key = "ENTER"
           THEN /\ interactive_command' = "none"
                /\ cmd_buff' = <<>>
                /\ replace_properties' = replace_properties
                /\ RunReplace("replace_key", <<key>>, replace_properties, pattern, mfs, -1)
           ELSE /\ key \in TypeKeys => Len(cmd_buff) < MaxCmdLen
                /\ interactive_command' = interactive_command
                /\ cmd_buff' = ReadlineTakeKey(cmd_buff, key)
                /\ replace_properties' =
                       [replace_properties EXCEPT
                           !.replacement = find_array_replace(@, cmd_buff')]
                /\ matchframes' = mfs
                /\ last' = Obs("replace_key", <<key>>)
                /\ UNCHANGED <<buffer, regex, cursor>>
    /\ UNCHANGED <<active_frame, pattern, search_save_row, search_save_col>>

----------------------------------------------------------------------------
(* find_cursor_next_match / find_cursor_prev_match *)

find_cursor_nearest_match(direction) ==
    /\ Tick
    /\ interactive_command = "none"
    /\ IF find_matchframe_get(matchframes, active_frame) = 0
       THEN /\ cursor' = cursor
            /\ last' = Obs(IF direction > 0 THEN "next" ELSE "prev", <<>>)
       ELSE \E nm \in {find_matchframe_cursor_nearest_match(
                          MatchesOf(matchframes, active_frame), pattern,
                          cursor[active_frame].line, cursor[active_frame].col,
                          direction)} :
                /\ cursor' = IF nm.ret = 0
                             THEN [cursor EXCEPT ![active_frame] =
                                       ClampCursor(buffer, nm.row, nm.col)]
                             ELSE cursor
                /\ last' = [Obs(IF direction > 0 THEN "next" ELSE "prev", <<>>)
                               EXCEPT !.msgs = nm.msgs]
    /\ UNCHANGED <<buffer, active_frame, matchframes, pattern, regex,
                   replace_properties, search_save_row, search_save_col,
                   interactive_command, cmd_buff>>

find_cursor_next_match == find_cursor_nearest_match(1)

find_cursor_prev_match == find_cursor_nearest_match(-1)

----------------------------------------------------------------------------
(* The host editor: the user moves the cursor or activates another frame *)

CursorStep(buf, cur, dir) ==
    CASE dir = "left"  -> ClampCursor(buf, cur.line, cur.col - 1)
      [] dir = "right" -> ClampCursor(buf, cur.line, cur.col + 1)
      [] dir = "up"    -> ClampCursor(buf, cur.line - 1, cur.col)
      [] dir = "down"  -> ClampCursor(buf, cur.line + 1, cur.col)

CursorMove(dir) ==
    /\ Tick
    /\ interactive_command = "none"
    /\ cursor' = [cursor EXCEPT ![active_frame] = CursorStep(buffer, @, dir)]
    /\ last' = Obs("cursor_move", <<dir>>)
    /\ UNCHANGED <<buffer, active_frame, matchframes, pattern, regex,
                   replace_properties, search_save_row, search_save_col,
                   interactive_command, cmd_buff>>

FrameActivate(f) ==
    /\ Tick
    /\ interactive_command = "none"
    /\ f # active_frame
    /\ active_frame' = f
    /\ last' = Obs("frame_activate", <<f>>)
    /\ UNCHANGED <<buffer, cursor, matchframes, pattern, regex,
                   replace_properties, search_save_row, search_save_col,
                   interactive_command, cmd_buff>>

----------------------------------------------------------------------------

Next ==
    \/ FindRegexSearchStart
    \/ \E p \in SearchPatterns : FindRegexSearchArg(p)
    \/ \E key \in Keys : FindRegexSearchKey(key)
    \/ \E exp \in SedExpressions : FindRegexSedReplace(exp)
    \/ FindRegexReplaceNoPattern
    \/ FindRegexReplaceStart
    \/ \E r \in Replacements : FindRegexReplaceArg(r)
    \/ \E key \in Keys : FindRegexReplaceKey(key)
    \/ find_cursor_next_match
    \/ find_cursor_prev_match
    \/ \E dir \in Directions : CursorMove(dir)
    \/ \E f \in Frames : FrameActivate(f)

Spec == Init /\ [][Next]_vars

----------------------------------------------------------------------------
(* find_matchframe_search_in_buffer one loop iteration at a time: scan.pc  *)
(* is "fetch" before yed_get_line_text, "scan" at the test of the inner    *)
(* while, "done" after the outer loop.                                     *)

\* The buffers searched: those of Init, one with an empty line, one of a
\* single character.
SearchBuffers ==
    InitBuffers \cup { << <<>>, <<"X", "X", "a">> >>, << <<"a">> >> }

\* The compiled patterns searched with, the empty pattern among them.
SearchRegexes ==
    {regcomp(p, ic).re : p \in {<<>>, <<"a">>, <<"X", "*">>, <<"b">>, <<"a", "*">>},
                         ic \in BOOLEAN}

\* Entry of find_matchframe_search_in_buffer: matches cleared, row = 1.
SearchInit ==
    /\ buffer \in SearchBuffers
    /\ regex \in SearchRegexes
    /\ scan \in {[pc |-> "fetch", row |-> 1, offset |-> 0, is_global |-> g,
                   matches |-> <<>>] : g \in BOOLEAN}
    /\ active_frame = "f1"
    /\ cursor = [f \in Frames |-> [line |-> 1, col |-> 1]]
    /\ matchframes = <<[yed_frame |-> "f1", matches |-> <<>>]>>
    /\ pattern = find_array_replace(ArrayMake, regex.src)
    /\ replace_properties =
           [is_all_lines |-> FALSE, is_single_line |-> FALSE, is_confirm |-> FALSE,
            is_global |-> FALSE, is_ignore_case |-> FALSE,
            start_line |-> 0, end_line |-> 0, replacement |-> ArrayMake]
    /\ search_save_row = 0
    /\ search_save_col = 0
    /\ interactive_command = "none"
    /\ cmd_buff = <<>>
    /\ last = [op |-> "boot", arg |-> <<>>, buf |-> buffer, pat |-> ArrayMake,
               cur |-> cursor["f1"], parsed |-> -1, compiled |-> -1,
               searched |-> FALSE, found |-> <<>>, edits |-> 0, msgs |-> {}]
    /\ steps = 0

\* line = yed_get_line_text(buffer, row); if (!line) break; offset = 0
SearchFetchLine ==
    /\ scan.pc = "fetch"
    /\ scan' = IF scan.row > Len(buffer)
               THEN [scan EXCEPT !.pc = "done"]
               ELSE [scan EXCEPT !.pc = "scan", !.offset = 0]
    /\ UNCHANGED <<buffer, active_frame, cursor, matchframes, pattern, regex,
                   replace_properties, search_save_row, search_save_col,
                   interactive_command, cmd_buff, last, steps>>

\* The state after one test of while (offset < len) and, when it passes,
\* one run of the loop body; leaving the loop goes on to row + 1.
ScanStep(sc, line, re, rm) ==
    IF ~(sc.offset < Len(line)) \/ rm = NoMatch
    THEN [sc EXCEPT !.pc = "fetch", !.row = @ + 1]
    ELSE [pc        |-> IF sc.is_global THEN "scan" ELSE "fetch",
          row       |-> IF sc.is_global THEN sc.row ELSE sc.row + 1,
          offset    |-> sc.offset + find_matchframe_push_match_next(rm),
          is_global |-> sc.is_global,
          matches   |-> Append(sc.matches,
                               find_matchframe_push_match(sc.row, sc.offset, rm))]

SearchScanStep ==
    /\ scan.pc = "scan"
    /\ scan' = ScanStep(scan, buffer[scan.row], regex,
                        IF scan.offset < Len(buffer[scan.row])
                        THEN regexec(regex, Suffix(buffer[scan.row], scan.offset))
                        ELSE NoMatch)
    /\ UNCHANGED <<buffer, active_frame, cursor, matchframes, pattern, regex,
                   replace_properties, search_save_row, search_save_col,
                   interactive_command, cmd_buff, last, steps>>

SearchNext == SearchFetchLine \/ SearchScanStep

\* The loop is sequential code: it keeps taking steps until it returns.
SearchSpec == SearchInit /\ [][SearchNext]_vars /\ WF_vars(SearchNext)

----------------------------------------------------------------------------
(* Reference definitions the properties are stated with *)

ReplaceOps == {"sed", "replace_arg", "replace_key"}

SearchOps == {"search_arg", "search_key"}

\* The last command ran the loop of find_matchframe_replace.
Replaced == last.op \in ReplaceOps /\ last.searched /\ Len(last.found) > 0

\* The text a replacement array stands for: its bytes before the terminator.
ReplacementText(rpl) ==
    IF rpl.used >= 1 THEN SubSeq(rpl.data, 1, rpl.used - 1) ELSE <<>>

MatchesOnLine(ms, row) == SelectSeq(ms, LAMBDA m : m.line = row)

\* line with the spans k, k+1, ... replaced by text, copying from pos on.
RECURSIVE SpliceLine(_, _, _, _, _)
SpliceLine(line, spans, k, pos, text) ==
    IF k > Len(spans) THEN SubSeq(line, pos + 1, Len(line))
    ELSE SubSeq(line, pos + 1, spans[k].start) \o text
         \o SpliceLine(line, spans, k + 1, spans[k].end, text)

SplicedBuffer(buf, ms, text) ==
    [row \in 1..Len(buf) |-> SpliceLine(buf[row], MatchesOnLine(ms, row), 1, 0, text)]

----------------------------------------------------------------------------
(* C1 *)

\* C1: replacement offset correctness.  After the replacement engine ran,
\* every line equals the original line with exactly the spans the search
\* recorded replaced, left to right, by the replacement text (the empty
\* text included); the characters outside the spans are kept in order.
C1_ReplacementOffsetCorrect ==
    Replaced =>
        buffer = SplicedBuffer(last.buf, last.found,
                               ReplacementText(replace_properties.replacement))

----------------------------------------------------------------------------
(* C2 *)

Ascending(ms) ==
    \A i \in 1..(Len(ms) - 1) :
        \/ ms[i].line < ms[i + 1].line
        \/ ms[i].line = ms[i + 1].line /\ ms[i].start < ms[i + 1].start

\* C2: ordering invariant.  In every reachable state the matches of every
\* matchframe, and the matches the last search (a keystroke, a search
\* command or the re-search inside replace) recorded, are strictly ascending
\* by (line, start).
C2_MatchesAscending ==
    /\ \A i \in 1..Len(matchframes) : Ascending(matchframes[i].matches)
    /\ Ascending(last.found)

\* A matchframe holding several matches on one line and matches on two lines.
C2_Witness ==
    \E i \in 1..Len(matchframes) :
        /\ Len(matchframes[i].matches) >= 3
        /\ matchframes[i].matches[1].line = matchframes[i].matches[2].line
        /\ matchframes[i].matches[Len(matchframes[i].matches)].line
               > matchframes[i].matches[1].line

----------------------------------------------------------------------------
(* C3 *)

\* The last command searched with is_global = 1.
GlobalSearched ==
    /\ last.searched
    /\ last.op \in SearchOps \/ (last.op \in ReplaceOps /\ replace_properties.is_global)

\* The reference scan of one line: matching resumes at the end of the
\* previous match (one further after an empty match, to move on).
RECURSIVE ReferenceScanLine(_, _, _, _)
ReferenceScanLine(re, line, row, offset) ==
    IF ~(offset < Len(line)) THEN <<>>
    ELSE LET rm == regexec(re, Suffix(line, offset))
         IN  IF rm = NoMatch THEN <<>>
             ELSE <<find_matchframe_push_match(row, offset, rm)>>
                  \o ReferenceScanLine(re, line, row,
                                       offset + (IF rm.rm_eo > rm.rm_so
                                                 THEN rm.rm_eo ELSE rm.rm_eo + 1))

RECURSIVE ReferenceScan(_, _, _)
ReferenceScan(buf, re, row) ==
    IF row > Len(buf) THEN <<>>
    ELSE ReferenceScanLine(re, buf[row], row, 0) \o ReferenceScan(buf, re, row + 1)

\* C3: global search completeness.  With global = true the search records,
\* for every line, all the non-overlapping matches of the pattern: the list
\* of the reference scan that resumes at the end of the previous match.
C3_GlobalSearchComplete ==
    GlobalSearched => last.found = ReferenceScan(last.buf, regex, 1)

----------------------------------------------------------------------------
(* C4 *)

\* C4: global vs first-only.  After a search with global = false no two
\* recorded matches share a line; after a search with global = true two
\* consecutive matches on a line never overlap (start >= previous end).
C4_GlobalVsFirstOnly ==
    /\ (last.searched /\ ~GlobalSearched) =>
           \A i, j \in 1..Len(last.found) :
               i # j => last.found[i].line # last.found[j].line
    /\ GlobalSearched =>
           \A i \in 1..(Len(last.found) - 1) :
               last.found[i].line = last.found[i + 1].line
                   => last.found[i + 1].start >= last.found[i].end
    /\ \A k \in 1..Len(matchframes) :
           \A i \in 1..(Len(matchframes[k].matches) - 1) :
               matchframes[k].matches[i].line = matchframes[k].matches[i + 1].line
                   => matchframes[k].matches[i + 1].start >= matchframes[k].matches[i].end

\* A first-only replace on lines that each hold several matches.
C4_Witness ==
    /\ last.op = "sed"
    /\ last.arg = SedCurrentLine
    /\ last.searched
    /\ ~replace_properties.is_global
    /\ last.buf = <<<<"a", "X", "a", "X", "a", "X">>, <<"a", "a", "a">>>>
    /\ Len(last.found) = 2

----------------------------------------------------------------------------
(* C5 *)

\* The last command was find-and-replace with expression exp.
SedRan(exp) == last.op = "sed" /\ last.arg = exp

\* C5: range parsing.  A replace expression with both line numbers, here
\* 5,10s/foo/bar/gi, is accepted and yields start_line 5, end_line 10, the
\* find text as the pattern, the replace text as the replacement, and
\* global, confirm, ignoreCase set exactly when g, c, i are in the flags.
C5_StartEndRangeParsed ==
    SedRan(SedStartEnd) =>
        /\ last.parsed = 0
        /\ replace_properties.start_line = 5
        /\ replace_properties.end_line = 10
        /\ HasString(pattern) /\ array_data(pattern) = <<"f", "o", "o">>
        /\ ReplacementText(replace_properties.replacement) = <<"b", "a", "r">>
        /\ replace_properties.is_global
        /\ ~replace_properties.is_confirm
        /\ replace_properties.is_ignore_case

----------------------------------------------------------------------------
(* C6 *)

\* The lines a parsed range selects.
InSelectedRange(rp, row) ==
    IF rp.is_all_lines THEN TRUE
    ELSE IF rp.is_single_line THEN row = rp.start_line
    ELSE rp.start_line <= row /\ row <= rp.end_line

\* C6: range confinement.  A replace expression with an empty range (the
\* current line), a single explicit line or a start,end range modifies only
\* the selected lines; every line outside the range is left unchanged even
\* when it holds matches of the pattern.
C6_RangeConfinement ==
    (last.op = "sed" /\ last.parsed = 0) =>
        \A row \in 1..Len(last.buf) :
            ~InSelectedRange(replace_properties, row) => buffer[row] = last.buf[row]

----------------------------------------------------------------------------
(* C7 *)

\* C7: a replace expression with a start line but no end line, here
\* 5s/foo/bar/, is rejected by the parser with an error, and no search and
\* no buffer mutation follows.
C7_StartWithoutEndRejected ==
    SedRan(SedStartOnly) =>
        /\ last.parsed # 0
        /\ last.msgs # {}
        /\ ~last.searched
        /\ buffer = last.buf

----------------------------------------------------------------------------
(* C8 *)

\* The flag letters of an expression: what follows its last slash.
SedFlagLetters(exp) ==
    Chars(SubSeq(exp, Max({j \in 1..Len(exp) : exp[j] = "/"}) + 1, Len(exp)))

\* C8: whole-buffer range.  An expression % s/find/replace/flags parses to
\* the whole-buffer selector, with global, confirm and ignoreCase set only
\* by its flag letters (all false for %s/foo/bar/); an expression combining
\* % with an end line number is rejected with an error and causes no
\* search and no buffer mutation.
C8_WholeBufferRange ==
    (last.op = "sed" /\ Head(last.arg) = "%") =>
        IF last.arg[2] = "s"
        THEN /\ last.parsed = 0
             /\ replace_properties.is_all_lines
             /\ ~replace_properties.is_single_line
             /\ replace_properties.is_global = ("g" \in SedFlagLetters(last.arg))
             /\ replace_properties.is_confirm = ("c" \in SedFlagLetters(last.arg))
             /\ replace_properties.is_ignore_case = ("i" \in SedFlagLetters(last.arg))
        ELSE /\ last.parsed # 0
             /\ last.msgs = {MSG_BOTH_PERCENT_AND_END}
             /\ ~last.searched
             /\ last.edits = 0
             /\ buffer = last.buf
             /\ pattern = last.pat

\* %,10s/foo/bar/ was rejected while the viewport held matches of an earlier
\* search, which are still there.
C8_Witness ==
    /\ SedRan(SedWholeAndEnd)
    /\ last.parsed # 0
    /\ MatchesOf(matchframes, active_frame) # <<>>

----------------------------------------------------------------------------
(* C9 *)

SlashesOf(exp) == {j \in 1..Len(exp) : exp[j] = "/"}

\* The find part of an expression with exactly three slashes.
FindPart(exp) == SubSeq(exp, Min(SlashesOf(exp)) + 1,
                        Min(SlashesOf(exp) \ {Min(SlashesOf(exp))}) - 1)

\* C9: empty-pattern reuse.  A replace expression with an empty find part
\* leaves the pattern store unchanged and the replacement is compiled from
\* and runs against the previously stored pattern; a non-empty find part
\* overwrites the pattern store with exactly that text before the search.
C9_EmptyFindReusesPattern ==
    (last.op = "sed" /\ last.parsed = 0 /\ Cardinality(SlashesOf(last.arg)) = 3) =>
        IF FindPart(last.arg) = <<>>
        THEN /\ pattern = last.pat
             /\ (HasString(last.pat) /\ last.compiled = 0) =>
                    /\ regex.src = array_data(last.pat)
                    /\ last.searched
                    /\ last.found = find_matchframe_search_in_buffer(
                                        last.buf, regex, replace_properties.is_global)
        ELSE /\ HasString(pattern)
             /\ array_data(pattern) = FindPart(last.arg)
             /\ array_len(pattern) = Len(FindPart(last.arg)) + 1
             /\ last.compiled = 0 => (regex.src = FindPart(last.arg) /\ last.searched)

\* s//bar/ ran against the pattern an earlier command stored and replaced
\* matches of it.
C9_Witness ==
    /\ SedRan(SedReuse)
    /\ find_pattern_exists(last.pat)
    /\ pattern = last.pat
    /\ Len(last.found) > 0
    /\ buffer # last.buf

----------------------------------------------------------------------------
(* C10 *)

\* C10: zero-match replace.  When the re-search inside the replacement
\* engine finds no match, every line of the buffer is unchanged, "pattern
\* not found" is reported, and no delete or insert call is made.
C10_ZeroMatchReplace ==
    (last.op \in ReplaceOps /\ last.searched /\ Len(last.found) = 0) =>
        /\ buffer = last.buf
        /\ MSG_NOT_FOUND \in last.msgs
        /\ last.edits = 0

\* A replace command with an argument whose pattern matches nothing.
C10_Witness ==
    /\ last.op = "replace_arg"
    /\ last.arg = <<"b", "b">>
    /\ last.searched
    /\ Len(last.found) = 0
    /\ find_pattern_exists(pattern)

----------------------------------------------------------------------------
(* C11 *)

CancelKeys == {<<"ESC">>, <<"CTRL_C">>}

\* The cursor as a position record.
At(row, col) == [line |-> row, col |-> col]

\* C11: cancel restores the cursor.  Entering interactive search saves the
\* cursor position (r, c); no keystroke typed afterwards changes the saved
\* position or the active frame; and an Escape or interrupt key returns the
\* session to idle with the cursor at exactly (r, c), the active frame's
\* matchframe empty and the pattern store empty.
C11_CancelRestoresCursor ==
    [][ /\ (interactive_command = "none" /\ interactive_command' = "find") =>
               /\ search_save_row' = cursor[active_frame].line
               /\ search_save_col' = cursor[active_frame].col
        /\ (interactive_command = "find") =>
               /\ search_save_row' = search_save_row
               /\ search_save_col' = search_save_col
               /\ active_frame' = active_frame
        /\ (interactive_command = "find" /\ last'.op = "search_key"
                /\ last'.arg \in CancelKeys) =>
               /\ interactive_command' = "none"
               /\ cursor'[active_frame] = At(search_save_row, search_save_col)
               /\ MatchesOf(matchframes', active_frame) = <<>>
               /\ HasString(pattern')
               /\ array_data(pattern') = <<>>
      ]_vars

\* A cancel that brought the cursor back from the match typing had moved it to.
C11_Witness ==
    /\ last.op = "search_key"
    /\ last.arg \in CancelKeys
    /\ interactive_command = "none"
    /\ last.cur # cursor[active_frame]
    /\ cursor[active_frame] = At(search_save_row, search_save_col)

----------------------------------------------------------------------------
(* C12, C13 *)

\* m comes before n in (line, start) order.
Before(m, n) == m.line < n.line \/ (m.line = n.line /\ m.start < n.start)

MatchSet(ms) == {ms[i] : i \in 1..Len(ms)}

LeastMatch(S) == CHOOSE m \in S : \A n \in S : n = m \/ Before(m, n)

GreatestMatch(S) == CHOOSE m \in S : \A n \in S : n = m \/ Before(n, m)

AfterCursor(ms, row, col) ==
    {m \in MatchSet(ms) : (m.line = row /\ m.start > col) \/ m.line > row}

BeforeCursor(ms, row, col) ==
    {m \in MatchSet(ms) : (m.line = row /\ m.start < col - 1) \/ m.line < row}

ForwardTarget(ms, row, col) ==
    IF AfterCursor(ms, row, col) = {} THEN ms[1]
    ELSE LeastMatch(AfterCursor(ms, row, col))

BackwardTarget(ms, row, col) ==
    IF BeforeCursor(ms, row, col) = {} THEN ms[Len(ms)]
    ELSE GreatestMatch(BeforeCursor(ms, row, col))

\* Where the host puts the cursor when it is sent to match m.
CursorOn(m) == ClampCursor(buffer, m.line, m.start + 1)

\* The last command was find-next (op "next") or find-prev (op "prev") on a
\* frame holding at least one match.
Navigated(op) ==
    /\ last.op = op
    /\ Len(MatchesOf(matchframes, active_frame)) >= 1

\* C12: forward navigation.  With N >= 1 matches, nearest(forward) from the
\* cursor (row, col) returns the least match in (line, start) order with
\* line = row and start > col, or line > row; when there is none it returns
\* the first match and gives the hit-bottom notice, and only then.  This is
\* stated of find-next and of the jump a search makes from the saved
\* position.
C12_ForwardNavigation ==
    /\ Navigated("next") =>
           /\ cursor[active_frame] =
                  CursorOn(ForwardTarget(MatchesOf(matchframes, active_frame),
                                         last.cur.line, last.cur.col))
           /\ (MSG_HIT_BOTTOM \in last.msgs) <=>
                  (AfterCursor(MatchesOf(matchframes, active_frame),
                               last.cur.line, last.cur.col) = {})
    /\ (last.op \in SearchOps /\ last.searched /\ Len(last.found) >= 1) =>
           /\ cursor[active_frame] =
                  CursorOn(ForwardTarget(last.found, search_save_row, search_save_col))
           /\ (MSG_HIT_BOTTOM \in last.msgs) <=>
                  (AfterCursor(last.found, search_save_row, search_save_col) = {})

\* find-next went to a match that is neither the first of the frame nor on
\* the cursor's line, without wrapping.
C12_Witness ==
    /\ Navigated("next")
    /\ MSG_HIT_BOTTOM \notin last.msgs
    /\ cursor[active_frame].line > last.cur.line
    /\ \E i \in 1..Len(MatchesOf(matchframes, active_frame)) :
           MatchesOf(matchframes, active_frame)[i].line = last.cur.line

\* C13: backward navigation.  With N >= 1 matches, nearest(backward) from
\* the cursor (row, col) returns the greatest match in (line, start) order
\* with line = row and start < col - 1, or line < row; when there is none it
\* returns the last match and gives the hit-top notice, and only then.
C13_BackwardNavigation ==
    Navigated("prev") =>
        /\ cursor[active_frame] =
               CursorOn(BackwardTarget(MatchesOf(matchframes, active_frame),
                                       last.cur.line, last.cur.col))
        /\ (MSG_HIT_TOP \in last.msgs) <=>
               (BeforeCursor(MatchesOf(matchframes, active_frame),
                             last.cur.line, last.cur.col) = {})

\* find-prev went back to an earlier match on the cursor's line, without
\* wrapping, while the frame holds matches before and after the cursor.
C13_Witness ==
    /\ Navigated("prev")
    /\ MSG_HIT_TOP \notin last.msgs
    /\ cursor[active_frame].line = last.cur.line
    /\ cursor[active_frame].col < last.cur.col
    /\ Len(MatchesOf(matchframes, active_frame)) >= 3

----------------------------------------------------------------------------
(* C14 *)

NavOps == {"next", "prev"}

\* C14: cyclic navigation.  When the cursor rests on match i of the N
\* matches of the active frame, find-next puts it on match i + 1 (on the
\* first after the last) and find-prev on match i - 1 (on the last before
\* the first), so that N successive commands visit every match once and
\* none is skipped, zero-width matches at adjacent columns included.
C14_CyclicNavigation ==
    \A i \in 1..Len(MatchesOf(matchframes, active_frame)) :
        LET ms == MatchesOf(matchframes, active_frame)
            N  == Len(ms)
        IN  (last.op \in NavOps /\ last.cur = At(ms[i].line, ms[i].start + 1)) =>
                cursor[active_frame] =
                    IF last.op = "next"
                    THEN At(ms[(i % N) + 1].line, ms[(i % N) + 1].start + 1)
                    ELSE At(ms[((i + N - 2) % N) + 1].line,
                            ms[((i + N - 2) % N) + 1].start + 1)

----------------------------------------------------------------------------
(* C15 *)

\* The active frame's matchframe holds what the last command's global
\* search of the current buffer with the stored pattern found.
HoldsSearchResult == last.op \in SearchOps /\ last.searched

\* C15: search determinism.  Running the search again on the same
\* matchframe with the same buffer, pattern and global flag gives the same
\* match list as the run before: a second search command with the same
\* pattern leaves the frame's list as it was, and the global,
\* case-sensitive search a replace makes finds that very list.
C15_SearchDeterminism ==
    [][ (HoldsSearchResult /\ steps' # steps /\ pattern' = pattern
             /\ buffer = last'.buf /\ last'.searched) =>
            /\ last'.op \in SearchOps =>
                   MatchesOf(matchframes', active_frame) =
                       MatchesOf(matchframes, active_frame)
            /\ (last'.op \in ReplaceOps /\ replace_properties'.is_global
                    /\ ~replace_properties'.is_ignore_case) =>
                   last'.found = MatchesOf(matchframes, active_frame)
      ]_vars

\* Enter ran the search a second time with the pattern "a" the key before
\* it had searched for, on a frame holding several matches.
C15_Witness ==
    /\ last.op = "search_key"
    /\ last.arg = <<"ENTER">>
    /\ last.searched
    /\ HasString(last.pat)
    /\ array_data(last.pat) = <<"a">>
    /\ Len(MatchesOf(matchframes, active_frame)) >= 2

----------------------------------------------------------------------------
(* C16 *)

\* C16: no match, no cursor move.  With no match in the active frame's
\* matchframe, find-next and find-prev leave the cursor unchanged, and a
\* search given its pattern as argument that finds nothing reports
\* "pattern not found" and leaves the cursor where it was when the command
\* was issued.
C16_NoMatchNoCursorMove ==
    /\ (last.op \in NavOps /\ MatchesOf(matchframes, active_frame) = <<>>) =>
           cursor[active_frame] = last.cur
    /\ (last.op = "search_arg" /\ last.searched /\ last.found = <<>>) =>
           /\ MSG_NOT_FOUND \in last.msgs
           /\ cursor[active_frame] = last.cur

----------------------------------------------------------------------------
(* C17 *)

ConfirmKey == <<"ENTER">>

\* The matches at or after the cursor position (row, col): a match that
\* starts on the cursor's own column is one of them.
AtOrAfter(ms, row, col) ==
    {m \in MatchSet(ms) : (m.line = row /\ m.start + 1 >= col) \/ m.line > row}

\* C17: live match-jumping.  After a keystroke of the interactive search
\* whose pattern compiles and has at least one match, the cursor is on the
\* nearest match at or after the saved position (the first match when there
\* is none): a match starting exactly at the saved cursor column is taken
\* in preference to any later one.
C17_LiveMatchJumping ==
    (last.op = "search_key" /\ last.arg \notin CancelKeys \cup {ConfirmKey}
         /\ last.searched /\ Len(last.found) >= 1) =>
        cursor[active_frame] =
            CursorOn(IF AtOrAfter(last.found, search_save_row, search_save_col) = {}
                     THEN last.found[1]
                     ELSE LeastMatch(AtOrAfter(last.found, search_save_row,
                                               search_save_col)))

----------------------------------------------------------------------------
(* C18 *)

\* C18: confirm keeps state.  Enter in the interactive search ends the
\* session and leaves the stored pattern and the cursor exactly as they
\* were immediately before it.
C18_ConfirmKeepsState ==
    (last.op = "search_key" /\ last.arg = ConfirmKey) =>
        /\ interactive_command = "none"
        /\ pattern = last.pat
        /\ cursor[active_frame] = last.cur

----------------------------------------------------------------------------
(* C19 *)

\* C19: compile failure is side-effect free.  A command whose compilation
\* of the pattern fails changes no frame's match list, leaves the buffer
\* and every cursor as they were, and gives the compile error exactly when
\* the session is not in interactive mode at that moment; a failure while
\* typing gives no message and leaves the session interactive.
C19_CompileFailureNoSideEffect ==
    [][ (steps' # steps /\ last'.compiled > 0) =>
            /\ \A f \in Frames :
                   MatchesOf(matchframes', f) = MatchesOf(matchframes, f)
            /\ buffer' = buffer
            /\ cursor' = cursor
            /\ ~last'.searched
            /\ (MSG_COMPILE_ERROR \in last'.msgs) <=> (interactive_command' = "none")
            /\ (interactive_command' # "none") => last'.msgs = {}
            /\ (interactive_command # "none" /\ last'.arg # ConfirmKey) =>
                   interactive_command' = interactive_command
      ]_vars

\* A typed key made the pattern fail to compile, silently, while the frame
\* holds the matches of the pattern before it and the cursor is on one.
C19_Witness ==
    /\ last.op = "search_key"
    /\ last.compiled > 0
    /\ interactive_command = "find"
    /\ last.msgs = {}
    /\ MatchesOf(matchframes, active_frame) # <<>>
    /\ cursor[active_frame] # At(search_save_row, search_save_col)

----------------------------------------------------------------------------
(* C20 *)

\* C20: parse failure is side-effect free.  When the parser rejects the
\* sed expression the command stops before any compilation or search, and
\* the buffer, every frame's match list and the stored pattern are as
\* before.
C20_ParseFailureNoSideEffect ==
    [][ (steps' # steps /\ last'.op = "sed" /\ last'.parsed > 0) =>
            /\ ~last'.searched
            /\ last'.compiled = -1
            /\ regex' = regex
            /\ buffer' = buffer
            /\ \A f \in Frames :
                   MatchesOf(matchframes', f) = MatchesOf(matchframes, f)
            /\ pattern' = pattern
      ]_vars

\* An expression with a find part was rejected while another pattern is
\* stored and the frame holds its matches.
C20_Witness ==
    /\ last.op = "sed"
    /\ last.parsed > 0
    /\ FindPart(last.arg) # <<>>
    /\ find_pattern_exists(pattern)
    /\ array_data(pattern) # FindPart(last.arg)
    /\ MatchesOf(matchframes, active_frame) # <<>>

----------------------------------------------------------------------------
(* C21 *)

\* C21: no stale matches after replace.  Right after a replace changed the
\* buffer, the matchframe of every frame showing that buffer is empty: with
\* two frames on the buffer, the frame the replace was not issued from
\* holds no match computed before the change either.
C21_NoStaleMatches ==
    (last.op \in ReplaceOps /\ buffer # last.buf) =>
        \A f \in Frames : MatchesOf(matchframes, f) = <<>>

----------------------------------------------------------------------------
(* C22 *)

\* The step is a keystroke of the interactive search that edits the text.
TypedKey ==
    /\ steps' # steps
    /\ last'.op = "search_key"
    /\ last'.arg \notin CancelKeys \cup {ConfirmKey}

Compiles(text) == regcomp(text, FALSE).status = 0

\* Where a search for a text that compiles puts the cursor, from the
\* origin (row, col) alone.
TextTarget(buf, row, col, text) ==
    LET ms == find_matchframe_search_in_buffer(buf, regcomp(text, FALSE).re, TRUE)
    IN  IF ms = <<>> THEN ClampCursor(buf, row, col)
        ELSE ClampCursor(buf, ForwardTarget(ms, row, col).line,
                         ForwardTarget(ms, row, col).start + 1)

\* Where the cursor is after typing the text key by key from the saved
\* position (row, col), with no other key in between: on the target of the
\* longest part typed so far that compiles.
TypedTarget(buf, row, col, text) ==
    LET P == {k \in 1..Len(text) : Compiles(SubSeq(text, 1, k))}
    IN  IF Compiles(text) THEN TextTarget(buf, row, col, text)
        ELSE IF P = {} THEN At(row, col)
        ELSE TextTarget(buf, row, col, SubSeq(text, 1, Max(P)))

\* The saved position is written only when an interactive session starts.
SavedWrittenOnStart ==
    (search_save_row' # search_save_row \/ search_save_col' # search_save_col) =>
        (interactive_command = "none" /\ interactive_command' # "none")

\* C22 as stated: fixed search origin.  The saved position is written only
\* on entering interactive mode; and the cursor after a keystroke depends
\* only on the buffer, the saved position and the pattern text, so it is
\* where typing that text directly puts it, whatever keys came before.
C22_FixedSearchOrigin ==
    [][ /\ SavedWrittenOnStart
        /\ TypedKey =>
               cursor'[active_frame] =
                   TypedTarget(buffer, search_save_row, search_save_col,
                               array_data(pattern'))
      ]_vars

\* C22 amended: the saved position is written only on entering interactive
\* mode; after a keystroke whose pattern text compiles the cursor is on
\* the target computed from the buffer, the saved position and the text
\* alone; after a keystroke whose text does not compile the cursor is
\* where the keystroke before left it.
C22_FixedOriginWhenCompiling ==
    [][ /\ SavedWrittenOnStart
        /\ (TypedKey /\ last'.compiled = 0) =>
               cursor'[active_frame] =
                   TextTarget(buffer, search_save_row, search_save_col,
                              array_data(pattern'))
        /\ (TypedKey /\ last'.compiled > 0) => cursor' = cursor
      ]_vars

\* A keystroke recomputed the target from the saved position while the
\* cursor was elsewhere and a search from the cursor would have gone to
\* another match.
C22_Witness ==
    /\ last.op = "search_key"
    /\ last.arg \notin CancelKeys \cup {ConfirmKey}
    /\ last.compiled = 0
    /\ Len(last.found) >= 1
    /\ last.cur # At(search_save_row, search_save_col)
    /\ cursor[active_frame] #
           TextTarget(buffer, last.cur.line, last.cur.col, array_data(pattern))

----------------------------------------------------------------------------
(* C23 *)

\* C23: pattern and compiled form agree.  Whenever a compiled pattern is
\* present, it was compiled from the text the pattern store holds now.
C23_CompiledFromCurrentText ==
    regex.valid => (HasString(pattern) /\ regex.src = array_data(pattern))

----------------------------------------------------------------------------
(* C25 *)

\* The matches a reader can call the nearest one following (row, col):
\* nearest by the navigator's own test, nearest starting after the cursor
\* cell, and nearest starting at or after it.
FollowingTargets(ms, row, col) ==
    {ForwardTarget(ms, row, c) : c \in {col, col - 1, col - 2}}

\* C25: origin of a command-driven search.  A search given its pattern as
\* argument that finds at least one match puts the cursor on the nearest
\* match following the position the cursor had when the command was
\* issued, whatever position an earlier interactive session saved.
C25_CommandSearchOrigin ==
    (last.op = "search_arg" /\ last.searched /\ Len(last.found) >= 1) =>
        \E m \in FollowingTargets(last.found, last.cur.line, last.cur.col) :
            cursor[active_frame] = CursorOn(m)

----------------------------------------------------------------------------
(* C26 *)

\* The last command ran find_matchframe_replace.
EngineStarted == last.op \in ReplaceOps /\ last.compiled # -1

\* C26: well-formed replacement text.  Whenever the replacement engine
\* starts, the replacement array holds a terminated string: at least the
\* terminator is in use, it is the last byte in use, and the replacement
\* length computed from the array is not negative.
C26_ReplacementWellFormed ==
    EngineStarted =>
        /\ array_len(replace_properties.replacement) >= 1
        /\ replace_properties.replacement.data[
               array_len(replace_properties.replacement)] = EOS
        /\ array_len(replace_properties.replacement) - 1 >= 0

----------------------------------------------------------------------------
(* C24 *)

\* A match was recorded by this step of the search loop.
MatchRecorded == Len(scan'.matches) > Len(scan.matches)

\* C24: search termination.  On every buffer and with every compiled
\* pattern, patterns matching the empty string included, the search
\* returns: the offset within the line grows with every recorded match, the
\* row never goes back and grows whenever the line is left, the loop over
\* the lines ends when there is no line at the row, and the list it
\* returns is the one the commands use.
C24_SearchTerminates ==
    /\ <>(scan.pc = "done")
    /\ [][ /\ MatchRecorded => scan'.offset > scan.offset
           /\ scan'.row >= scan.row
           /\ (scan.pc = "scan" /\ scan'.pc = "fetch") => scan'.row > scan.row
           /\ (scan.pc = "fetch" /\ scan.row > Len(buffer)) => scan'.pc = "done"
         ]_vars
    /\ [](scan.pc = "done" =>
              scan.matches =
                  find_matchframe_search_in_buffer(buffer, regex, scan.is_global))

\* A global search with a pattern that matches the empty string has
\* returned, with several zero-width matches recorded on one line.
C24_Witness ==
    /\ scan.pc = "done"
    /\ scan.is_global
    /\ \E i \in 1..Len(scan.matches) - 1 :
           /\ scan.matches[i].end = scan.matches[i].start
           /\ scan.matches[i + 1].end = scan.matches[i + 1].start
           /\ scan.matches[i + 1].line = scan.matches[i].line

====
